---- MODULE Spec2Model ----
(***************************************************************************)
(* BubbleOS Lite: the command dispatcher (intCmds), the error catalogue    *)
(* (Errors) and the mkfile handler with its line-oriented content editor.  *)
(*                                                                         *)
(* Text is modelled with TLA+ strings; startsWith, trim, toUpperCase and   *)
(* join are computed character by character.                               *)
(***************************************************************************)
EXTENDS Integers, Sequences, FiniteSets, TLC

VARIABLES
    status,     \* "running" | "exited" | "crashed": the shell process
    pc,         \* where the running intCmds call is blocked: "idle" | "prompt" | "editor"
    command,    \* the `command` argument of the running (or last) intCmds call
    history,    \* the list _addToHist appends to
    arrived,    \* ghost: the non-empty lines handed to intCmds, in arrival order
    file,       \* mkfile: the resolved `file`
    contents,   \* mkfile: the editor buffer `contents`
    fs,         \* the filesystem: path -> [exists, data]
    out,        \* error reports (Errors.* and _fatalError) printed by the running call
    call,       \* ghost: what the running (or last) intCmds call has done
    last        \* ghost: the last interactive input and what it printed

vars == <<status, pc, command, history, arrived, file, contents, fs, out, call, last>>

(***************************************************************************)
(* Bounds                                                                  *)
(***************************************************************************)
MaxCmds == 2        \* non-empty lines dispatched in one session
SessionLines == 1   \* lines entered into one editor buffer during a session
MaxLines == 2       \* lines entered into the editor buffer of a single mkfile run
DispatchCmds == 1   \* non-empty lines dispatched when every keyword is tried
NameMax == 16       \* longest path the modelled filesystem accepts

(***************************************************************************)
(* String functions                                                        *)
(***************************************************************************)
Lower == "abcdefghijklmnopqrstuvwxyz"
Upper == "ABCDEFGHIJKLMNOPQRSTUVWXYZ"

CharAt(s, i) == SubSeq(s, i, i)

UpperOf ==
    [c \in {CharAt(Lower, i) : i \in 1..Len(Lower)} |->
        CharAt(Upper, CHOOSE i \in 1..Len(Lower) : CharAt(Lower, i) = c)]

ToUpperChar(c) == IF c \in DOMAIN UpperOf THEN UpperOf[c] ELSE c

RECURSIVE toUpperCase(_)
toUpperCase(s) ==
    IF s = "" THEN "" ELSE ToUpperChar(CharAt(s, 1)) \o toUpperCase(SubSeq(s, 2, Len(s)))

startsWith(s, k) == Len(s) >= Len(k) /\ SubSeq(s, 1, Len(k)) = k

IsSpace(c) == c \in {" ", "\t"}

RECURSIVE trimStart(_)
trimStart(s) ==
    IF s # "" /\ IsSpace(CharAt(s, 1)) THEN trimStart(SubSeq(s, 2, Len(s))) ELSE s

RECURSIVE trimEnd(_)
trimEnd(s) ==
    IF s # "" /\ IsSpace(CharAt(s, Len(s))) THEN trimEnd(SubSeq(s, 1, Len(s) - 1)) ELSE s

trim(s) == trimEnd(trimStart(s))

\* Array.prototype.join: the elements with sep between neighbours
RECURSIVE join(_, _)
join(lines, sep) ==
    IF Len(lines) = 0 THEN ""
    ELSE IF Len(lines) = 1 THEN lines[1]
    ELSE lines[1] \o sep \o join(Tail(lines), sep)

(***************************************************************************)
(* Errors: the catalogue of user-facing error kinds                        *)
(***************************************************************************)
\* _interpretError(code, message): one formatted line "[code] message"
interpretError(code, args) == [kind |-> "error", code |-> code, args |-> args]

unrecognizedCommand(cmd) == interpretError(1, <<cmd>>)
enterParameter(type, example) == interpretError(2, <<type, example>>)
doesNotExist(type, variable) == interpretError(3, <<type, variable>>)
noPermissions(todo, variable) == interpretError(4, <<todo, variable>>)
inUse(type, variable) == interpretError(5, <<type, variable>>)
invalidCharacters(type, supposedTo, notContain, variable) ==
    interpretError(12, <<type, supposedTo, notContain, variable>>)
pathTooLong(path) == interpretError(13, <<path>>)
invalidUNCPath == interpretError(15, <<>>)

\* _fatalError(err): the generic report carrying the raw error
fatalError(err) == [kind |-> "fatal", code |-> 0, args |-> <<err.name, err.code>>]

\* _errorInterpret(code, vars): 0 = no command entered, 1 = unrecognized command
errorInterpret(code, cmd) ==
    IF code = 1 THEN unrecognizedCommand(cmd) ELSE interpretError(0, <<>>)

\* What a JavaScript throw carries
SysError(code) == [name |-> "Error", code |-> code]
ReferenceError == [name |-> "ReferenceError", code |-> "undefined"]

(***************************************************************************)
(* The dispatcher intCmds                                                  *)
(***************************************************************************)
TableAbbreviated ==
    <<"ex", "help", "cd", "ls", "sysinfo", "taskkill", "cls", "mkdir",
      "exec", "about", "mkfile", "readfile", "copyfile", "print",
      "userinfo", "wcount", "del", "tasklist", "size", "rename", "time",
      "history", "fif", "cwd", "ifnet", "date", "bub">>

\* The keywords of the else-if chain, in declaration order
Table == <<"exit", "help", "cd", "ls", "sysinfo", "taskkill", "cls", "mkdir",
           "exec", "about", "mkfile", "readfile", "copyfile", "print",
           "userinfo", "wcount", "del", "tasklist", "size", "rename", "time",
           "history", "fif", "cwd", "ifnet", "date", "bub">>

\* Index of the branch the chain takes, 0 for the final else
Match(cmd) ==
    IF \E i \in DOMAIN Table : startsWith(cmd, Table[i])
    THEN CHOOSE i \in DOMAIN Table :
            /\ startsWith(cmd, Table[i])
            /\ \A j \in 1..(i - 1) : ~startsWith(cmd, Table[j])
    ELSE 0

\* if (isEmpty) _errorInterpret(0);
EmptyReport(isEmpty) == IF isEmpty THEN <<errorInterpret(0, "")>> ELSE <<>>

NoMatchReportUnguarded(cmd, isEmpty) == <<errorInterpret(1, cmd)>>

\* else { if (!isEmpty) _errorInterpret(1, { command }); }
NoMatchReport(cmd, isEmpty) == IF ~isEmpty THEN <<errorInterpret(1, cmd)>> ELSE <<>>

\* if (!isEmpty) _addToHist(command);
AddToHist(hist, cmd, isEmpty) == IF ~isEmpty THEN Append(hist, cmd) ELSE hist

\* The prompt loop hands intCmds the trimmed line and whether it is empty
CallerCommand(raw) == trim(raw)
CallerIsEmpty(raw) == trim(raw) = ""

\* _singleParam(command, keyword): the text that follows the keyword
singleParam(cmd, kw) == trim(SubSeq(cmd, Len(kw) + 1, Len(cmd)))

(***************************************************************************)
(* mkfile: path resolution, checks and the platform                        *)
(***************************************************************************)
Cwd == "/w"
UNCPrefix == "\\\\"

\* _parseDoubleQuotes: one pair of enclosing double quotes is removed
parseDoubleQuotes(p) ==
    IF Len(p) >= 2 /\ CharAt(p, 1) = "\"" /\ CharAt(p, Len(p)) = "\""
    THEN SubSeq(p, 2, Len(p) - 1) ELSE p

\* _convertAbsolute: a relative path is resolved against the working directory
convertAbsolute(p) ==
    IF p = "" \/ startsWith(p, "/") \/ startsWith(p, UNCPrefix) THEN p
    ELSE Cwd \o "/" \o p

\* file = _caseSenstivePath(_convertAbsolute(_parseDoubleQuotes([file, ...args])[0]));
\* casing is only corrected on case-insensitive filesystems
ResolvePath(param) == convertAbsolute(parseDoubleQuotes(param))

\* Checks
paramUndefined(f) == f = ""
doesExist(f) == f \in DOMAIN fs /\ fs[f].exists
pathUNC(f) == startsWith(f, UNCPrefix)

\* The platform: where a write or a delete fails, and with which code
MissingDir == Cwd \o "/nodir/"
TooLong(f) == Len(f) > NameMax

WriteResults(f) ==
    IF TooLong(f) THEN {"ENAMETOOLONG", "EINVAL"}      \* POSIX, Windows
    ELSE IF startsWith(f, MissingDir) THEN {"ENOENT"}
    ELSE {"OK", "EPERM", "EACCES"}

RmResults(f) == {"OK", "EPERM", "EBUSY", "EACCES"}

Absent == [exists |-> FALSE, data |-> ""]

(***************************************************************************)
(* mkfile: the two catch blocks                                            *)
(***************************************************************************)
\* Names the catch blocks read: `catch {` around rmSync binds no `err`, and
\* mkfile declares no `dir`; reading either throws a ReferenceError
InnerCatchBindsErr == FALSE
DirIsDeclared == FALSE

\* catch { if (err.code === "EPERM") ... else if (err.code === "EBUSY") ... return; }
DeleteCatch(e, f) ==
    IF ~InnerCatchBindsErr THEN
        [reports |-> <<>>, thrown |-> <<ReferenceError>>]
    ELSE IF e.code = "EPERM" THEN
        [reports |-> <<noPermissions("delete the file", f)>>, thrown |-> <<>>]
    ELSE IF e.code = "EBUSY" THEN
        [reports |-> <<inUse("file", f)>>, thrown |-> <<>>]
    ELSE
        [reports |-> <<>>, thrown |-> <<>>]

MkfileCatchNoENOENT(err, f) ==
    IF err.code = "EPERM" THEN
        [reports |-> <<noPermissions("make the file", f)>>, thrown |-> <<>>]
    ELSE IF err.code = "ENAMETOOLONG" THEN
        [reports |-> <<pathTooLong(f)>>, thrown |-> <<>>]
    ELSE IF err.code = "EINVAL" THEN
        [reports |-> <<>>, thrown |-> <<ReferenceError>>]
    ELSE
        [reports |-> <<fatalError(err)>>, thrown |-> <<>>]

\* catch (err) { ... } around the whole handler
MkfileCatch(err, f) ==
    IF err.code = "ENOENT" THEN
        [reports |-> <<doesNotExist("file", f)>>, thrown |-> <<>>]
    ELSE IF err.code = "EPERM" THEN
        [reports |-> <<noPermissions("make the file", f)>>, thrown |-> <<>>]
    ELSE IF err.code = "ENAMETOOLONG" THEN
        [reports |-> <<pathTooLong(f)>>, thrown |-> <<>>]
    ELSE IF err.code = "EINVAL" THEN
        \* the arguments of Errors.invalidCharacters(...) are evaluated first
        IF ~DirIsDeclared THEN
            [reports |-> <<>>, thrown |-> <<ReferenceError>>]
        ELSE
            [reports |-> <<invalidCharacters("directory name", "valid path characters",
                                             "characters such as '?' or ':' (Windows only)", f)>>,
             thrown |-> <<>>]
    ELSE
        [reports |-> <<fatalError(err)>>, thrown |-> <<>>]

(***************************************************************************)
(* mkfile: the content editor                                              *)
(***************************************************************************)
IsSaveOrCancel(input) == toUpperCase(input) \in {"!SAVE", "!CANCEL"}

IsSave(input) == toUpperCase(input) = "!SAVE"
IsCancel(input) == toUpperCase(input) = "!CANCEL"
IsEdit(input) == toUpperCase(input) = "!EDIT"

ConfirmedAlways(answer) == TRUE

\* if (_promptForYN(...)) { delete } else { abort }
Confirmed(answer) == answer

\* question(query, { defaultInput }): empty input gives the default
question(typed, defaultInput) == IF typed = "" THEN defaultInput ELSE typed

InRangeOffByOne(lineNumber, len) == lineNumber >= 1 /\ lineNumber <= len + 1

\* lineNumber >= 1 && lineNumber <= contents.length
InRange(lineNumber, len) == lineNumber >= 1 /\ lineNumber <= len

ReplaceLineZeroBased(buf, lineNumber, newLine) ==
    IF lineNumber = Len(buf) THEN Append(buf, newLine)
    ELSE [i \in 1..Len(buf) |-> IF i - 1 = lineNumber THEN newLine ELSE buf[i]]

\* contents[lineNumber - 1] = newLine (an index equal to the length extends the array)
ReplaceLine(buf, lineNumber, newLine) ==
    IF lineNumber - 1 = Len(buf) THEN Append(buf, newLine)
    ELSE [i \in 1..Len(buf) |-> IF i - 1 = lineNumber - 1 THEN newLine ELSE buf[i]]

FileDataTrailingNewline(buf) == join(buf, "\n") \o "\n"

\* fs.writeFileSync(file, contents.join("\n"), "utf8")
FileData(buf) == join(buf, "\n")

(***************************************************************************)
(* Inputs                                                                  *)
(***************************************************************************)
LongName == "aaaaaaaaaaaaaaaaaaaa.txt"
UNCFile == UNCPrefix \o "srv\\a"

MkfileLines == {"mkfile", "mkfile a.txt", "mkfile nodir/a.txt", "mkfile " \o LongName,
                "mkfile " \o UNCFile}
RawLines == {"", "  ", " cls ", "catch", "exit"} \cup MkfileLines

Paths == {ResolvePath("a.txt"), ResolvePath("nodir/a.txt"), ResolvePath(LongName), UNCFile}

\* Every keyword alone, with an argument, and with text glued to it; and lines
\* that differ from a keyword in case or carry text in front of it
Suffixes == {"", " a.txt", "a.txt"}
DispatchLines ==
    {Table[i] \o s : i \in DOMAIN Table, s \in Suffixes}
        \cup {"", "CLS", "Exit", "Mkfile a.txt", "xcd", "catch"}

RmCodes == {"OK", "EPERM", "EBUSY", "EACCES"}
WriteCodes == {"OK", "ENOENT", "EPERM", "EACCES", "ENAMETOOLONG", "EINVAL"}

SessionInputs == {"alpha", "!save", "!CANCEL", "!Edit"}
EditorInputs == {"alpha", "beta", "", "!save", "!CANCEL", "!Edit"}
NewTexts == {"gamma", ""}

(***************************************************************************)
(* State                                                                   *)
(***************************************************************************)
NoCall == [raw |-> "", isEmpty |-> TRUE, handler |-> "none", prompted |-> FALSE,
           answer |-> "none", deletes |-> 0, writes |-> 0, dcode |-> "none",
           wcode |-> "none", raised |-> FALSE, ending |-> "none"]

NoInput == [op |-> "none", input |-> "", n |-> 0, typed |-> "", before |-> <<>>,
            printed |-> <<>>]

Init ==
    /\ status = "running"
    /\ pc = "idle"
    /\ command = ""
    /\ history = <<>>
    /\ arrived = <<>>
    /\ file = ""
    /\ contents = <<>>
    /\ fs \in [Paths -> {Absent, [exists |-> TRUE, data |-> "old"]}]
    /\ \A f \in Paths : TooLong(f) \/ startsWith(f, MissingDir) => ~fs[f].exists
    /\ out = <<>>
    /\ call = NoCall
    /\ last = NoInput

(***************************************************************************)
(* Actions                                                                 *)
(***************************************************************************)
\* The running call moves on to nextpc having printed the reports o; "idle"
\* is the end of the handler: intCmds appends to the history and returns,
\* unless an exception is on its way out through intCmds.
Step(nextpc, o, c) ==
    /\ pc' = nextpc
    /\ out' = o
    /\ call' = c
    /\ IF nextpc = "idle" /\ c.raised
       THEN history' = history /\ status' \in {"running", "crashed"}
       ELSE IF nextpc = "idle"
       THEN history' = AddToHist(history, command', c.isEmpty) /\ status' = status
       ELSE history' = history /\ status' = status

\* if (fileChk.pathUNC()) { Errors.invalidUNCPath(); return; } console.log(...)
UNCCheck(o, c, printed, input) ==
    IF pathUNC(file')
    THEN /\ Step("idle", o \o <<invalidUNCPath>>, [c EXCEPT !.ending = "unc"])
         /\ last' = [input EXCEPT !.printed = printed]
    ELSE /\ Step("editor", o, c)
         /\ last' = [input EXCEPT !.printed = printed \o <<"Add the content of the new file.">>]

\* mkfile(file) up to its first prompt
MkfileStart(param, o, c, input) ==
    /\ file' = ResolvePath(param)
    /\ contents' = <<>>
    /\ fs' = fs
    /\ IF paramUndefined(file')
       THEN /\ Step("idle", o \o <<enterParameter("a file", "mkfile test.txt")>>,
                    [c EXCEPT !.ending = "param"])
            /\ last' = input
       ELSE IF doesExist(file')
       THEN /\ Step("prompt", o, [c EXCEPT !.prompted = TRUE])
            /\ last' = [input EXCEPT !.printed = <<"Would you like to delete it?">>]
       ELSE UNCCheck(o, c, <<>>, input)

\* intCmds(command, isEmpty), called by the prompt loop with the line raw
IntCmds(raw) ==
    /\ status = "running"
    /\ pc = "idle"
    /\ LET cmd == CallerCommand(raw)
           isEmpty == CallerIsEmpty(raw)
           k == Match(cmd)
           kw == IF k = 0 THEN "none" ELSE Table[k]
           c == [NoCall EXCEPT !.raw = raw, !.isEmpty = isEmpty, !.handler = kw]
           o == EmptyReport(isEmpty)
           input == [NoInput EXCEPT !.op = "dispatch", !.input = raw]
       IN  /\ command' = cmd
           /\ arrived' = IF isEmpty THEN arrived ELSE Append(arrived, cmd)
           /\ CASE k = 0 ->
                    /\ Step("idle", o \o NoMatchReport(cmd, isEmpty), c)
                    /\ last' = input
                    /\ UNCHANGED <<file, contents, fs>>
                [] kw = "exit" ->
                    \* require("./exit") ends the process
                    /\ pc' = "idle" /\ status' = "exited" /\ out' = o /\ call' = c
                    /\ last' = input
                    /\ UNCHANGED <<history, file, contents, fs>>
                [] kw = "mkfile" ->
                    MkfileStart(singleParam(cmd, "mkfile"), o, c, input)
                [] OTHER ->
                    \* any other handler prints and returns
                    /\ Step("idle", o, c)
                    /\ last' = [input EXCEPT !.printed = <<kw>>]
                    /\ UNCHANGED <<file, contents, fs>>

\* _promptForYN("... already exists. Would you like to delete it?")
PromptForYN(answer, res) ==
    /\ pc = "prompt"
    /\ LET input == [NoInput EXCEPT !.op = "prompt", !.input = IF answer THEN "y" ELSE "n"]
           c == [call EXCEPT !.answer = IF answer THEN "yes" ELSE "no"]
       IN  /\ UNCHANGED <<command, arrived, file, contents>>
           /\ IF ~Confirmed(answer)
              THEN /\ res = "OK"
                   /\ fs' = fs
                   /\ Step("idle", out, [c EXCEPT !.ending = "abort"])
                   /\ last' = [input EXCEPT !.printed = <<"Process aborted.">>]
              ELSE /\ res \in RmResults(file)
                   /\ LET d == [c EXCEPT !.deletes = @ + 1, !.dcode = res] IN
                      IF res = "OK"
                      THEN \* fs.rmSync(file, { recursive: true, force: true })
                           /\ fs' = [fs EXCEPT ![file] = Absent]
                           /\ UNCCheck(out, d, <<"Successfully deleted.">>, input)
                      ELSE LET inner == DeleteCatch(SysError(res), file)
                               outer == IF inner.thrown = <<>>
                                        THEN [reports |-> <<>>, thrown |-> <<>>]
                                        ELSE MkfileCatch(inner.thrown[1], file)
                           IN  /\ fs' = fs
                               /\ Step("idle", out \o inner.reports \o outer.reports,
                                       [d EXCEPT !.ending = "delfail",
                                                 !.raised = outer.thrown # <<>>])
                               /\ last' = input

\* question("> ") answered with the save sentinel
EditorSave(input, res) ==
    /\ pc = "editor"
    /\ IsSave(input)
    /\ res \in WriteResults(file)
    /\ UNCHANGED <<command, arrived, file, contents>>
    /\ LET c == [call EXCEPT !.writes = @ + 1, !.wcode = res, !.ending = "save"]
           i == [NoInput EXCEPT !.op = "save", !.input = input, !.before = contents]
       IN  IF res = "OK"
           THEN /\ fs' = [fs EXCEPT ![file] = [exists |-> TRUE, data |-> FileData(contents)]]
                /\ Step("idle", out, c)
                /\ last' = [i EXCEPT !.printed = <<"Successfully made the file.">>]
           ELSE LET outer == MkfileCatch(SysError(res), file) IN
                /\ fs' = fs
                /\ Step("idle", out \o outer.reports, [c EXCEPT !.raised = outer.thrown # <<>>])
                /\ last' = i

\* question("> ") answered with the cancel sentinel
EditorCancel(input) ==
    /\ pc = "editor"
    /\ ~IsSave(input) /\ IsCancel(input)
    /\ UNCHANGED <<command, arrived, file, contents, fs>>
    /\ Step("idle", out, [call EXCEPT !.ending = "cancel"])
    /\ last' = [NoInput EXCEPT !.op = "cancel", !.input = input, !.before = contents,
                               !.printed = <<"Edits discarded and process aborted.">>]

\* question("> ") answered with the edit sentinel, then questionInt and question
EditorEdit(input, lineNumber, typed) ==
    /\ pc = "editor"
    /\ ~IsSave(input) /\ ~IsCancel(input) /\ IsEdit(input)
    /\ UNCHANGED <<command, arrived, file, fs>>
    /\ Step("editor", out, call)
    /\ LET i == [NoInput EXCEPT !.op = "edit", !.input = input, !.before = contents] IN
       IF Len(contents) = 0
       THEN /\ lineNumber = 0 /\ typed = ""          \* neither is asked for
            /\ contents' = contents
            /\ last' = [i EXCEPT !.printed = <<"No previous input to edit.">>]
       ELSE IF InRange(lineNumber, Len(contents))
       THEN /\ contents' = ReplaceLine(contents, lineNumber, question(typed, "\n"))
            /\ last' = [i EXCEPT !.n = lineNumber, !.typed = typed,
                                 !.printed = <<"Line has been updated.">>]
       ELSE /\ typed = ""                            \* the new text is not asked for
            /\ contents' = contents
            /\ last' = [i EXCEPT !.n = lineNumber, !.printed = <<"Invalid line number.">>]

\* question("> ") answered with any other line
EditorAppend(input) ==
    /\ pc = "editor"
    /\ ~IsSave(input) /\ ~IsCancel(input) /\ ~IsEdit(input)
    /\ UNCHANGED <<command, arrived, file, fs>>
    /\ Step("editor", out, call)
    /\ contents' = Append(contents, input)
    /\ last' = [NoInput EXCEPT !.op = "append", !.input = input, !.before = contents]

\* A session of the shell: several lines, short editor runs
Next ==
    \/ \E raw \in RawLines : Len(arrived) < MaxCmds /\ IntCmds(raw)
    \/ \E answer \in BOOLEAN, res \in RmCodes : PromptForYN(answer, res)
    \/ \E input \in SessionInputs, res \in WriteCodes : EditorSave(input, res)
    \/ \E input \in SessionInputs : EditorCancel(input)
    \/ \E input \in SessionInputs : \E n \in 0..(SessionLines + 1), typed \in {"gamma"} :
            EditorEdit(input, n, typed)
    \/ \E input \in SessionInputs : Len(contents) < SessionLines /\ EditorAppend(input)

Spec == Init /\ [][Next]_vars

\* A single mkfile command with the whole editor
NextMkfile ==
    \/ \E raw \in MkfileLines : arrived = <<>> /\ IntCmds(raw)
    \/ \E answer \in BOOLEAN, res \in RmCodes : PromptForYN(answer, res)
    \/ \E input \in EditorInputs, res \in WriteCodes : EditorSave(input, res)
    \/ \E input \in EditorInputs : EditorCancel(input)
    \/ \E input \in EditorInputs : \E n \in (-1)..(MaxLines + 3), typed \in NewTexts :
            EditorEdit(input, n, typed)
    \/ \E input \in EditorInputs : Len(contents) < MaxLines /\ EditorAppend(input)

SpecMkfile == Init /\ [][NextMkfile]_vars

\* Every keyword of the table is tried as the start of a line
NextDispatch ==
    \/ \E raw \in DispatchLines : Len(arrived) < DispatchCmds /\ IntCmds(raw)
    \/ \E answer \in BOOLEAN, res \in RmCodes : PromptForYN(answer, res)
    \/ \E input \in SessionInputs, res \in WriteCodes : EditorSave(input, res)
    \/ \E input \in SessionInputs : EditorCancel(input)
    \/ \E input \in SessionInputs : \E n \in 0..(SessionLines + 1), typed \in {"gamma"} :
            EditorEdit(input, n, typed)
    \/ \E input \in SessionInputs : Len(contents) < SessionLines /\ EditorAppend(input)

SpecDispatch == Init /\ [][NextDispatch]_vars

(***************************************************************************)
(* Properties                                                              *)
(***************************************************************************)

\* C1: whenever intCmds is not running (and the process was not ended by
\* `exit`), the history is exactly the sequence of the non-empty lines it was
\* given, in arrival order, each once - also for a line whose handler raised.
HistoryEqualsArrivals ==
    (pc = "idle" /\ status # "exited") => history = arrived

\* C2: the "unrecognized command" error (code 1, carrying the line) is reported
\* exactly when the line is non-empty and starts with no keyword of the table;
\* an empty or whitespace-only line reports none and invokes no handler.
UnrecognizedExactly ==
    LET reported == \E i \in DOMAIN out : out[i].code = 1
        blank == \A j \in 1..Len(call.raw) : CharAt(call.raw, j) \in {" ", "\t"}
    IN  /\ reported <=>
              (command # "" /\ \A k \in DOMAIN Table :
                                  Len(command) < Len(Table[k])
                                  \/ SubSeq(command, 1, Len(Table[k])) # Table[k])
        /\ \A i \in DOMAIN out :
              out[i].code = 1 => out[i] = [kind |-> "error", code |-> 1, args |-> <<command>>]
        /\ blank => ~reported /\ call.handler = "none"

UnrecognizedWitness ==
    /\ pc = "idle"
    /\ command = "catch"
    /\ out = <<[kind |-> "error", code |-> 1, args |-> <<"catch">>]>>
    /\ history = <<"mkfile", "catch">>

\* C3: a run that ends with the save sentinel writes exactly the buffer lines
\* (the lines entered, each appended verbatim, after the edits made), in
\* order, with one newline between neighbours and nothing after the last:
\* [alpha, beta] gives "alpha\nbeta" and the empty buffer the empty file.
SavedIsJoinedLines ==
    /\ last.op = "append" => contents = last.before \o <<last.input>>
    /\ (last.op = "save" /\ call.wcode = "OK") =>
          LET buf == last.before
              data == fs[file].data
              start[i \in 1..(Len(buf) + 1)] ==
                  IF i = 1 THEN 0 ELSE start[i - 1] + Len(buf[i - 1]) + 1
          IN  /\ buf = contents
              /\ fs[file].exists
              /\ buf = <<>> => data = ""
              /\ buf = <<"alpha", "beta">> => data = "alpha\nbeta"
              /\ buf # <<>> => Len(data) = start[Len(buf) + 1] - 1
              /\ \A i \in 1..Len(buf) :
                    /\ SubSeq(data, start[i] + 1, start[i] + Len(buf[i])) = buf[i]
                    /\ i < Len(buf) => CharAt(data, start[i + 1]) = "\n"

SavedWitness ==
    /\ last.op = "save"
    /\ call.wcode = "OK"
    /\ last.before = <<"alpha", "beta">>
    /\ fs[file] = [exists |-> TRUE, data |-> "alpha\nbeta"]

\* C4 as stated: an edit step with a line number n in 1..L replaces exactly the
\* n-th line with the new text and leaves the other lines, their order and the
\* length of the buffer unchanged.
EditStoresTypedText ==
    (last.op = "edit" /\ last.n \in 1..Len(last.before)) =>
        /\ Len(contents) = Len(last.before)
        /\ \A i \in 1..Len(contents) :
              contents[i] = IF i = last.n THEN last.typed ELSE last.before[i]

\* C4 amended: an edit step with a line number n in 1..L replaces exactly the
\* n-th line with the new text, or with a single newline character when the
\* new text was entered empty, and leaves the other lines, their order and the
\* length of the buffer unchanged.
EditReplacesOnlyTarget ==
    (last.op = "edit" /\ last.n \in 1..Len(last.before)) =>
        /\ Len(contents) = Len(last.before)
        /\ \A i \in 1..Len(contents) :
              contents[i] = IF i # last.n THEN last.before[i]
                            ELSE IF last.typed = "" THEN "\n" ELSE last.typed

EditWitness ==
    /\ last.op = "edit"
    /\ last.n = 2
    /\ last.before = <<"alpha", "beta">>
    /\ contents = <<"alpha", "gamma">>

\* C5: an edit step with a line number outside 1..L, or on an empty buffer,
\* leaves the buffer unchanged, prints the invalid-line-number (or
\* nothing-to-edit) notice, reports no error and stays in the editor loop.
BadEditIsHarmless ==
    (last.op = "edit" /\ last.n \notin 1..Len(last.before)) =>
        /\ contents = last.before
        /\ last.printed = IF last.before = <<>> THEN <<"No previous input to edit.">>
                          ELSE <<"Invalid line number.">>
        /\ out = <<>>
        /\ ~call.raised
        /\ pc = "editor"
        /\ status = "running"
        /\ ENABLED (\E input \in EditorInputs, res \in WriteCodes : EditorSave(input, res))

BadEditWitness ==
    /\ last.op = "edit"
    /\ last.n = 5
    /\ last.before = <<"alpha", "beta">>
    /\ contents = <<"alpha", "beta">>
    /\ last.printed = <<"Invalid line number.">>

\* C6: when the file exists and the user declines the overwrite, mkfile
\* returns with no delete and no write (the file keeps its contents), without
\* entering the editor and without an error report; only the "aborted" notice
\* is printed.
DeclineTouchesNothing ==
    call.answer = "no" =>
        /\ call.prompted
        /\ call.deletes = 0 /\ call.writes = 0
        /\ fs[file] = [exists |-> TRUE, data |-> "old"]
        /\ pc = "idle"
        /\ last.op = "prompt"
        /\ contents = <<>>
        /\ out = <<>>
        /\ ~call.raised
        /\ last.printed = <<"Process aborted.">>

DeclineWitness ==
    /\ call.answer = "no"
    /\ pc = "idle"
    /\ file = "/w/a.txt"
    /\ fs[file].data = "old"

\* C7: a run that ends with the cancel sentinel writes nothing, whatever the
\* buffer held; the file is written only by a run that ends with the save
\* sentinel, and then exactly once.
OnlySaveWrites ==
    /\ (last.op \in {"save", "cancel"} /\ toUpperCase(last.input) = "!CANCEL") =>
          /\ pc = "idle"
          /\ call.writes = 0
          /\ \A p \in Paths : fs[p].exists => fs[p].data = "old"
    /\ call.writes > 0 =>
          /\ call.writes = 1
          /\ last.op = "save" /\ toUpperCase(last.input) = "!SAVE"
    /\ (last.op = "save" /\ toUpperCase(last.input) = "!SAVE") => call.writes = 1
    /\ \A p \in Paths :
          (fs[p].exists /\ fs[p].data # "old") =>
              p = file /\ call.wcode = "OK" /\ toUpperCase(last.input) = "!SAVE"

CancelWitness ==
    /\ last.op = "cancel"
    /\ last.before = <<"alpha", "\n">>
    /\ call.deletes = 1
    /\ ~fs[file].exists

\* C8: every failure of the delete or of the write, whatever its code (EINVAL
\* and unmapped codes included), ends mkfile with exactly one error report
\* printed (one error kind or the fatal report) and no exception escaping.
FailureReportsOnce ==
    (pc = "idle" /\ (call.dcode \notin {"none", "OK"} \/ call.wcode \notin {"none", "OK"})) =>
        /\ ~call.raised
        /\ Len(out) = 1
        /\ out[1].kind \in {"error", "fatal"}

\* C9: a write that fails with ENOENT is reported as "does not exist" (3), with
\* EPERM as "no permissions" to make the file (4), with ENAMETOOLONG as "path
\* too long" (13), never as the fatal report; a failed write reaches the fatal
\* report only with a code outside the mapped set.
WriteErrorsAreClassified ==
    pc = "idle" =>
        /\ call.wcode = "ENOENT" =>
              out = <<[kind |-> "error", code |-> 3, args |-> <<"file", file>>]>>
        /\ call.wcode = "EPERM" =>
              out = <<[kind |-> "error", code |-> 4, args |-> <<"make the file", file>>]>>
        /\ call.wcode = "ENAMETOOLONG" =>
              out = <<[kind |-> "error", code |-> 13, args |-> <<file>>]>>
        /\ (call.wcode # "none" /\ \E i \in DOMAIN out : out[i].kind = "fatal") =>
              /\ call.wcode \notin {"OK", "ENOENT", "EPERM", "ENAMETOOLONG", "EINVAL"}
              /\ out = <<[kind |-> "fatal", code |-> 0, args |-> <<"Error", call.wcode>>]>>

WriteErrorWitness ==
    /\ pc = "idle"
    /\ call.wcode = "ENOENT"
    /\ file = "/w/nodir/a.txt"
    /\ out = <<[kind |-> "error", code |-> 3, args |-> <<"file", "/w/nodir/a.txt">>]>>
    /\ ~call.raised

\* C10: a write that fails on an overlong path, with ENAMETOOLONG (POSIX) or
\* with EINVAL (Windows), is reported as "path too long" (13) for the path.
OverlongIsPathTooLong ==
    (pc = "idle" /\ Len(file) > NameMax /\ call.wcode \in {"ENAMETOOLONG", "EINVAL"}) =>
        out = <<[kind |-> "error", code |-> 13, args |-> <<file>>]>>

\* C11: when the user confirms the overwrite and the delete fails, EPERM is
\* reported as "no permissions" to delete the file (4) and EBUSY as "in use"
\* (5), neither as the fatal report, and the editor is not entered.
DeleteErrorsAreClassified ==
    (call.dcode \in {"EPERM", "EBUSY"}) =>
        /\ pc = "idle"
        /\ contents = <<>>
        /\ call.writes = 0
        /\ \A i \in DOMAIN out : out[i].kind # "fatal"
        /\ call.dcode = "EPERM" =>
              out = <<[kind |-> "error", code |-> 4, args |-> <<"delete the file", file>>]>>
        /\ call.dcode = "EBUSY" =>
              out = <<[kind |-> "error", code |-> 5, args |-> <<"file", file>>]>>

\* C12: on every mkfile run with a UNC path, the path is rejected before the
\* overwrite prompt is shown and before any delete or write.
UNCRejectedFirst ==
    (call.handler = "mkfile" /\ Len(file) >= 2 /\ SubSeq(file, 1, 2) = "\\\\") =>
        /\ ~call.prompted
        /\ call.deletes = 0
        /\ call.writes = 0
        /\ pc = "idle"
        /\ out = <<[kind |-> "error", code |-> 15, args |-> <<>>]>>

\* C13: the dispatcher takes the first table entry, in declaration order,
\* whose keyword is a literal, case-sensitive prefix of the line; and no entry
\* declared before a keyword k has a keyword that is a prefix of k, so every
\* line that starts with k is handled by k's own handler.
FirstMatchOwnsLine ==
    LET IsPrefix(k, s) == Len(k) <= Len(s) /\ SubSeq(s, 1, Len(k)) = k IN
    /\ \A i, j \in DOMAIN Table : i < j => ~IsPrefix(Table[i], Table[j])
    /\ call.handler # "none" =>
          \E k \in DOMAIN Table :
              /\ Table[k] = call.handler
              /\ IsPrefix(Table[k], command)
              /\ \A j \in 1..(k - 1) : ~IsPrefix(Table[j], command)
    /\ \A k \in DOMAIN Table : IsPrefix(Table[k], command) => call.handler = Table[k]
    /\ call.handler = "none" => \A k \in DOMAIN Table : ~IsPrefix(Table[k], command)

FirstMatchWitness ==
    /\ pc = "idle"
    /\ command = "taskkilla.txt"
    /\ call.handler = "taskkill"
    /\ history = <<"taskkilla.txt">>

====
